---- MODULE Spec2Model ----
(***************************************************************************)
(* Model of the BookVerse recommendations service: the Indexer with its    *)
(* TTL cache (app/indexer.py), the health endpoint that shares one Indexer *)
(* between request threads (app/api.py), the background worker             *)
(* (app/worker.py), the scorer (app/algorithms.py) and the handlers of     *)
(* get_similar and get_personalized (app/api.py).                          *)
(*                                                                         *)
(* Floats are modelled as exact fractions <<numerator, denominator>> in    *)
(* lowest terms; weights are kept in hundredths.                           *)
(***************************************************************************)
EXTENDS Integers, Sequences, FiniteSets, TLC

\* ------------------------------------------------------------------ bounds
MaxCalls == 2      \* health requests issued against the shared Indexer
MaxTTL   == 1      \* largest configured TTL
MaxSeeds == 2      \* seed books handed to the scorer
MaxLimit == 2      \* largest explicit limit of a recommendation request
MaxRetries == 3    \* largest max_retries of an HTTP client
MaxTotal == 7      \* largest total handed to paginate
MaxPage == 4       \* largest page number requested
MaxPerPage == 3    \* largest per_page requested

\* ------------------------------------------------------------ environment
Threads == {"t1", "t2"}      \* request threads of the API process
Worker  == "w"               \* the main loop of the worker process
Procs   == Threads \cup {Worker}

\* RECO_TTL_SECONDS: the "always rebuild" sentinel and a positive TTL
TTLs      == {0, MaxTTL}
StartTime == MaxTTL + 1      \* time.time() is far beyond any TTL at start
\* the clock runs until a snapshot built at the start has outlived the TTL
MaxNow    == StartTime + MaxTTL + 1

\* Items as the inventory service returns them.  avail is "in", "out" or
\* "missing" (no "availability" key); ok = FALSE is an item that lacks a
\* required key, so that its conversion raises.
Item(id, gs, as, av, ok) ==
  [id |-> id, genres |-> gs, authors |-> as, avail |-> av, ok |-> ok]

CatA     == << Item("b1", {"g1"}, {"a1"}, "in", TRUE),
               Item("b2", {"g1", "g2"}, {"a1"}, "out", TRUE) >>
CatB     == << Item("b1", {"g2"}, {"a2"}, "missing", TRUE),
               Item("b3", {"g2"}, {"a1", "a2"}, "in", TRUE) >>
CatDup   == << Item("b1", {"g1"}, {"a1"}, "in", TRUE),
               Item("b1", {"g2"}, {"a2"}, "in", TRUE) >>
CatEmpty == << >>
CatBad   == << Item("b1", {"g1"}, {"a1"}, "in", TRUE),
               Item("b2", {"g1"}, {"a1"}, "in", FALSE) >>
\* what the catalog source may return: to a rebuild of the Indexer the
\* request threads share, and to a rebuild of the worker's own Indexer
Catalogs(p) ==
  IF p = Worker THEN {CatA, CatB, CatDup, CatEmpty, CatBad}
  ELSE {CatA, CatEmpty, CatBad}

\* Transaction records; has_qty = FALSE is a record without quantity_change.
Tx(ty, id, has, q) ==
  [transaction_type |-> ty, book_id |-> id, has_qty |-> has, quantity_change |-> q]

TxA     == << Tx("stock_out", "b1", TRUE, -3), Tx("stock_out", "b1", TRUE, -2),
              Tx("stock_out", "b2", TRUE, -5) >>
TxB     == << Tx("stock_in", "b1", TRUE, 4), Tx("stock_out", "b3", FALSE, 0),
              Tx("stock_out", "b1", TRUE, -2) >>
TxZero  == << Tx("stock_out", "b1", TRUE, 0), Tx("stock_in", "b2", TRUE, 7) >>
TxEmpty == << >>
\* what the transaction source may return
TxFeeds(p) ==
  IF p = Worker THEN {TxA, TxB, TxZero, TxEmpty} ELSE {TxA}

\* ---------------------------------------------------------------- helpers
RECURSIVE GCD(_, _)
GCD(a, b) == IF b = 0 THEN a ELSE GCD(b, a % b)

Abs(n) == IF n < 0 THEN -n ELSE n

\* the float n / d
Frac(n, d) == LET g == GCD(n, d) IN << n \div g, d \div g >>

SetMax(S) == CHOOSE m \in S : \A x \in S : x <= m

\* ------------------------------------------------------- Indexer.rebuild
\* Availability(**item["availability"]) or the "unavailable" default
InStockOf(item) == item.avail = "in"

ToBook(item) ==
  [id |-> item.id, genres |-> item.genres, authors |-> item.authors,
   in_stock |-> InStockOf(item)]

Convertible(payload) == \A i \in DOMAIN payload : payload[i].ok

\* book_by_id[book.id] = book, a later item replacing an earlier one
BuildBookById(payload) ==
  [id \in {payload[i].id : i \in DOMAIN payload} |->
     LET last == SetMax({i \in DOMAIN payload : payload[i].id = id})
     IN  ToBook(payload[last])]

BuildGenreIndex_InStockOnly(payload) ==
  [g \in UNION {payload[i].genres : i \in DOMAIN payload} |->
     {payload[i].id : i \in {j \in DOMAIN payload :
                                g \in payload[j].genres /\ InStockOf(payload[j])}}]

\* genre_to_book_ids.setdefault(g, set()).add(book.id)
BuildGenreIndex(payload) ==
  [g \in UNION {payload[i].genres : i \in DOMAIN payload} |->
     {payload[i].id : i \in {j \in DOMAIN payload : g \in payload[j].genres}}]

\* author_to_book_ids.setdefault(a, set()).add(book.id)
BuildAuthorIndex(payload) ==
  [a \in UNION {payload[i].authors : i \in DOMAIN payload} |->
     {payload[i].id : i \in {j \in DOMAIN payload : a \in payload[j].authors}}]

TxQuantity_MissingAsZero(tx) ==
  IF tx.has_qty THEN Abs(tx.quantity_change) ELSE 0

\* abs(int(tx.get("quantity_change", -1)))
TxQuantity(tx) ==
  IF tx.has_qty THEN Abs(tx.quantity_change) ELSE Abs(-1)

RECURSIVE SumFor(_, _, _)
SumFor(txs, id, n) ==
  IF n = 0 THEN 0
  ELSE SumFor(txs, id, n - 1) +
       (IF txs[n].transaction_type = "stock_out" /\ txs[n].book_id = id
        THEN TxQuantity(txs[n]) ELSE 0)

StockOutCounts(txs) ==
  [id \in {txs[i].book_id :
             i \in {j \in DOMAIN txs : txs[j].transaction_type = "stock_out"}} |->
     SumFor(txs, id, Len(txs))]

BuildPopularity_Raw(txs) ==
  LET counts == StockOutCounts(txs)
  IN  [k \in DOMAIN counts |-> Frac(counts[k], 1)]

\* max(stock_out_counts.values()) or 1 ; v / max_count
BuildPopularity(txs) ==
  LET counts == StockOutCounts(txs) IN
  IF DOMAIN counts = {} THEN << >>
  ELSE LET m         == SetMax({counts[k] : k \in DOMAIN counts})
           max_count == IF m = 0 THEN 1 ELSE m
       IN  [k \in DOMAIN counts |-> Frac(counts[k], max_count)]

\* CatalogIndices.__init__
EmptyIndices ==
  [book_by_id |-> << >>, genre_to_book_ids |-> << >>,
   author_to_book_ids |-> << >>, popularity |-> << >>, last_built_at |-> 0]

Fields == {"book_by_id", "genre_to_book_ids", "author_to_book_ids",
           "popularity", "last_built_at"}

\* ------------------------------------------------- algorithms.score_simple
Zero == Frac(0, 1)

\* weights in hundredths: WeightsConfig's defaults 1.0 / 0.25 / 0.10, and two
\* other settings the configuration admits (0.0 to 10.0 each)
DefaultWeights == [genre |-> 100, author |-> 25, popularity |-> 10]
WeightSettings ==
  { DefaultWeights,
    [genre |-> 0, author |-> 0, popularity |-> 0],
    [genre |-> 50, author |-> 200, popularity |-> 1000] }

\* score_simple without the out-of-stock branch
score_simple_NoFilter(seed_books, candidate, popularity, filter, w) ==
  LET seed_genres   == UNION {b.genres : b \in seed_books}
      seed_authors  == UNION {b.authors : b \in seed_books}
      genre_overlap  == Cardinality(seed_genres \cap candidate.genres)
      author_overlap == Cardinality(seed_authors \cap candidate.authors)
      pop == IF candidate.id \in DOMAIN popularity
             THEN popularity[candidate.id] ELSE Zero
  IN  [score   |-> Frac((w.genre * genre_overlap + w.author * author_overlap) * pop[2]
                          + w.popularity * pop[1],
                        100 * pop[2]),
       factors |-> [genre |-> Frac(genre_overlap, 1),
                    author |-> Frac(author_overlap, 1),
                    popularity |-> pop]]

score_simple_SwappedWeights(seed_books, candidate, popularity, filter, w) ==
  LET seed_genres   == UNION {b.genres : b \in seed_books}
      seed_authors  == UNION {b.authors : b \in seed_books}
  IN
  IF filter /\ ~ candidate.in_stock
  THEN [score |-> Zero,
        factors |-> [genre |-> Zero, author |-> Zero, popularity |-> Zero]]
  ELSE
  LET genre_overlap  == Cardinality(seed_genres \cap candidate.genres)
      author_overlap == Cardinality(seed_authors \cap candidate.authors)
      pop == IF candidate.id \in DOMAIN popularity
             THEN popularity[candidate.id] ELSE Zero
  IN  [score   |-> Frac((w.author * genre_overlap + w.genre * author_overlap) * pop[2]
                          + w.popularity * pop[1],
                        100 * pop[2]),
       factors |-> [genre |-> Frac(genre_overlap, 1),
                    author |-> Frac(author_overlap, 1),
                    popularity |-> pop]]

score_simple_Difference(seed_books, candidate, popularity, filter, w) ==
  LET seed_genres   == UNION {b.genres : b \in seed_books}
      seed_authors  == UNION {b.authors : b \in seed_books}
  IN
  IF filter /\ ~ candidate.in_stock
  THEN [score |-> Zero,
        factors |-> [genre |-> Zero, author |-> Zero, popularity |-> Zero]]
  ELSE
  LET genre_overlap  == Cardinality(seed_genres \ candidate.genres)
      author_overlap == Cardinality(seed_authors \ candidate.authors)
      pop == IF candidate.id \in DOMAIN popularity
             THEN popularity[candidate.id] ELSE Zero
  IN  [score   |-> Frac((w.genre * genre_overlap + w.author * author_overlap) * pop[2]
                          + w.popularity * pop[1],
                        100 * pop[2]),
       factors |-> [genre |-> Frac(genre_overlap, 1),
                    author |-> Frac(author_overlap, 1),
                    popularity |-> pop]]

\* score_simple(seed_books, candidate, popularity), with the two settings it
\* reads: filter_out_of_stock_enabled() and get_weights()
score_simple(seed_books, candidate, popularity, filter, w) ==
  LET seed_genres   == UNION {b.genres : b \in seed_books}
      seed_authors  == UNION {b.authors : b \in seed_books}
  IN
  IF filter /\ ~ candidate.in_stock
  THEN [score |-> Zero,
        factors |-> [genre |-> Zero, author |-> Zero, popularity |-> Zero]]
  ELSE
  LET genre_overlap  == Cardinality(seed_genres \cap candidate.genres)
      author_overlap == Cardinality(seed_authors \cap candidate.authors)
      pop == IF candidate.id \in DOMAIN popularity
             THEN popularity[candidate.id] ELSE Zero
  IN  [score   |-> Frac((w.genre * genre_overlap + w.author * author_overlap) * pop[2]
                          + w.popularity * pop[1],
                        100 * pop[2]),
       factors |-> [genre |-> Frac(genre_overlap, 1),
                    author |-> Frac(author_overlap, 1),
                    popularity |-> pop]]

\* the books, popularity maps and seed sets the scorer is tried on
BookPool ==
  {ToBook(c[i]) : c \in {CatA, CatB, CatDup}, i \in 1 .. 2}
PopularityMaps == {BuildPopularity(x) : x \in {TxA, TxB, TxZero, TxEmpty}}
SeedSets == {S \in SUBSET BookPool : Cardinality(S) <= MaxSeeds}

NoResult ==
  [score |-> Zero,
   factors |-> [genre |-> Zero, author |-> Zero, popularity |-> Zero]]

NoScoring ==
  [seed_books |-> {}, candidate |-> ToBook(CatA[1]), popularity |-> << >>,
   filter |-> TRUE, w |-> DefaultWeights, done |-> FALSE, out |-> NoResult]


\* ------------------------------------------------ a request, a response
PseudoSeedCount == 3      \* list(feature_candidates)[:3]
DefaultLimit    == 10     \* Query(10, ...) and payload.limit or 10
NoLimit         == 0      \* payload.limit is None

NoRequest ==
  [kind |-> "none", cat |-> << >>, tx |-> << >>, filter |-> TRUE,
   w |-> DefaultWeights, book_id |-> "-", seeds |-> {}, seed_genres |-> {},
   seed_authors |-> {}, limit |-> DefaultLimit, fetch |-> "ok"]

NoResponse ==
  [status |-> "none", path |-> "-", seed_ids |-> {}, feature_candidates |-> {},
   candidate_ids |-> {}, scored |-> {}, items |-> << >>]

Failure(code) == [NoResponse EXCEPT !.status = code]

\* ---------------------------------------------- an HTTP call, a page request
\* no call of _make_request in progress
NoHttp ==
  [max_retries |-> 0, attempt |-> 0, at |-> "off", log |-> << >>,
   slept |-> << >>, result |-> "none"]

NoMeta ==
  [total |-> 0, page |-> 0, per_page |-> 0, pages |-> 0,
   has_next |-> FALSE, has_prev |-> FALSE]

NoPage ==
  [total |-> 0, page |-> 1, per_page |-> 1, done |-> TRUE, offset |-> 0,
   meta |-> NoMeta]


\* ------------------------------------------------------------------ state
VARIABLES
  ttl,       \* RECO_TTL_SECONDS, fixed at import
  now,       \* what time.time() returned last
  indices,   \* the one CatalogIndices object of the Indexer
  pc,        \* position of every thread / of the worker
  loc,       \* rebuild's locals: books_payload, transactions, rebuild number
  ret,       \* what ensure_indices returned to the thread: a reference or "none"
  origin,    \* per field of indices: number of the rebuild that assigned it
  wrote,     \* per process: fields of indices it assigned during its current call
  obs,       \* per thread: the rebuilds whose structures the health reader has read
  fresh,     \* per thread: the snapshot was Fresh when ensure_indices decided
  failed,    \* per thread: the rebuild of the current call raised
  nCalls,    \* ensure_indices calls started on the shared Indexer
  nOk,       \* ensure_indices calls that returned a snapshot
  hs,        \* per thread: the stale flag the health handler computed
  nCat,      \* list_books calls made by the API process
  nTx,       \* list_transactions calls made by the API process
  sc,        \* one call of score_simple: its arguments, the settings, its result
  rq,        \* one recommendation request, the inventory and the settings it meets
  rs,        \* the response to rq, with the handler's intermediate sets
  http,      \* one call of StandardizedHTTPClient._make_request
  pg         \* one call of paginate: its arguments and the metadata it built

vars == << ttl, now, indices, pc, loc, ret, origin, wrote, obs, fresh,
           failed, nCalls, nOk, hs, nCat, nTx, sc, rq, rs, http, pg >>

NoLoc == [cat |-> << >>, tx |-> << >>, rid |-> 0]

InitCommon ==
  /\ ttl \in TTLs
  /\ now = StartTime
  /\ indices = EmptyIndices
  /\ loc = [p \in Procs |-> NoLoc]
  /\ ret = [t \in Threads |-> "none"]
  /\ origin = [f \in Fields |-> 0]
  /\ wrote = [p \in Procs |-> {}]
  /\ obs = [t \in Threads |-> {}]
  /\ fresh = [t \in Threads |-> FALSE]
  /\ failed = [t \in Threads |-> FALSE]
  /\ nCalls = 0
  /\ nOk = 0
  /\ hs = [t \in Threads |-> "none"]
  /\ nCat = 0
  /\ nTx = 0

Init ==
  /\ InitCommon
  /\ sc = NoScoring
  /\ rq = NoRequest
  /\ rs = NoResponse
  /\ http = NoHttp
  /\ pg = NoPage
  /\ pc = [p \in Procs |-> IF p = Worker THEN "off" ELSE "idle"]

\* the fields of idx in the order lines 299 and 310-313 read them, and the
\* reader's position before each read
ReadOrder == << "last_built_at", "book_by_id", "genre_to_book_ids",
                "author_to_book_ids", "popularity" >>
ReadPc == << "h299", "h310", "h311", "h312", "h313", "respond" >>

\* ------------------------------------------------------ Indexer, stepwise
\* Where control goes when rebuild returns / raises: back into
\* ensure_indices (line 40) or out of it, or into the worker's try block.
RebuildDone(p)  == IF p = Worker THEN "w_log" ELSE "return"

\* ensure_indices has no handler around self.rebuild(): the error leaves it
EnsureSwallows == "return"
\* ensure_indices with a retry of the failed rebuild
EnsureRetries == "list_books"
EnsurePropagates == "raised"

\* worker.main wraps the call in try / except Exception
WorkerUncaught == "w_exit"
WorkerCatches == "w_except"

RebuildRaise(p) == IF p = Worker THEN WorkerCatches ELSE EnsurePropagates

\* the fetch counters belong to the API process's client
Count(p, n) == IF p \in Threads THEN n + 1 ELSE n

\* time.time(): the clock never runs backwards
Clock == now .. MaxNow

\* _is_stale without the sentinel for TTL = 0
_is_stale_NoSentinel ==
  IF ttl < 0 THEN TRUE ELSE (now' - indices.last_built_at) > ttl

\* Indexer._is_stale
_is_stale ==
  IF ttl <= 0 THEN TRUE ELSE (now' - indices.last_built_at) > ttl

\* Section 4.3 of the specification: Fresh = a snapshot exists and its age
\* is at most the TTL (TTL <= 0 is always Stale).
SpecFresh ==
  /\ ttl > 0
  /\ origin["last_built_at"] # 0
  /\ now' - indices.last_built_at <= ttl

Go(p, label) == pc' = [pc EXCEPT ![p] = label]

Raise(p) ==
  /\ Go(p, RebuildRaise(p))
  /\ loc' = [loc EXCEPT ![p] = NoLoc]
  /\ failed' = [t \in Threads |-> IF t = p THEN TRUE ELSE failed[t]]

\* ensure_indices, line 38: not self.indices.book_by_id or self._is_stale()
EnsureCheck(t) ==
  /\ pc[t] = "ensure"
  /\ now' \in Clock
  /\ Go(t, IF DOMAIN indices.book_by_id = {} \/ _is_stale
            THEN "list_books" ELSE "return")
  /\ fresh' = [fresh EXCEPT ![t] = SpecFresh]
  /\ UNCHANGED << http, pg, hs, rq, rs, sc, ttl, indices, loc, ret, origin, wrote, obs,
                  failed, nCalls, nOk, nCat, nTx >>

\* a rebuild that fills self.indices.book_by_id while it converts the items
ListBooksInPlace(p) ==
  /\ pc[p] = "list_books"
  /\ \E c \in Catalogs(p) :
       /\ Convertible(c)
       /\ loc' = [loc EXCEPT ![p] =
                    [cat |-> c, tx |-> << >>,
                     rid |-> IF p \in Threads THEN nCat + 1 ELSE 1]]
       /\ indices' = [indices EXCEPT !["book_by_id"] = BuildBookById(c)]
       /\ origin' = [origin EXCEPT !["book_by_id"] =
                       IF p \in Threads THEN nCat + 1 ELSE 1]
       /\ wrote' = [wrote EXCEPT ![p] = @ \cup {"book_by_id"}]
  /\ nCat' = Count(p, nCat)
  /\ Go(p, "list_tx")
  /\ UNCHANGED << http, pg, hs, rq, rs, sc, ttl, now, ret, obs, fresh, failed, nCalls, nOk, nTx >>

\* rebuild, lines 44-64: the catalog fetch returns a payload and every item
\* of it is converted and indexed in the locals
ListBooks(p) ==
  /\ pc[p] = "list_books"
  /\ \E c \in Catalogs(p) :
       /\ Convertible(c)
       /\ loc' = [loc EXCEPT ![p] =
                    [cat |-> c, tx |-> << >>,
                     rid |-> IF p \in Threads THEN nCat + 1 ELSE 1]]
  /\ nCat' = Count(p, nCat)
  /\ Go(p, "list_tx")
  /\ UNCHANGED << http, pg, hs, rq, rs, sc, ttl, now, indices, ret, origin, wrote, obs, fresh,
                  failed, nCalls, nOk, nTx >>

\* rebuild, line 44: the catalog fetch raises
ListBooksFail(p) ==
  /\ pc[p] = "list_books"
  /\ nCat' = Count(p, nCat)
  /\ Raise(p)
  /\ UNCHANGED << http, pg, hs, rq, rs, sc, ttl, now, indices, ret, origin, wrote, obs, fresh,
                  nCalls, nOk, nTx >>

\* rebuild, lines 44-59: the catalog fetch returns a payload with an item
\* that lacks a key, and the conversion raises
ConvertFail(p) ==
  /\ pc[p] = "list_books"
  /\ \E c \in Catalogs(p) : ~ Convertible(c)
  /\ nCat' = Count(p, nCat)
  /\ Raise(p)
  /\ UNCHANGED << http, pg, hs, rq, rs, sc, ttl, now, indices, ret, origin, wrote, obs, fresh,
                  nCalls, nOk, nTx >>

\* rebuild, lines 67-79: the transaction fetch returns a feed
ListTransactions(p) ==
  /\ pc[p] = "list_tx"
  /\ \E x \in TxFeeds(p) : loc' = [loc EXCEPT ![p].tx = x]
  /\ nTx' = Count(p, nTx)
  /\ Go(p, "pub_books")
  /\ UNCHANGED << http, pg, hs, rq, rs, sc, ttl, now, indices, ret, origin, wrote, obs, fresh,
                  failed, nCalls, nOk, nCat >>

\* rebuild, line 67: the transaction fetch raises
ListTransactionsFail(p) ==
  /\ pc[p] = "list_tx"
  /\ nTx' = Count(p, nTx)
  /\ Raise(p)
  /\ UNCHANGED << http, pg, hs, rq, rs, sc, ttl, now, indices, ret, origin, wrote, obs, fresh,
                  nCalls, nOk, nCat >>

\* one attribute assignment of rebuild's lines 81-85
Assign(p, f, v) ==
  /\ indices' = [indices EXCEPT ![f] = v]
  /\ origin' = [origin EXCEPT ![f] = loc[p].rid]
  /\ wrote' = [wrote EXCEPT ![p] = @ \cup {f}]

\* rebuild, line 81
PublishBooks(p) ==
  /\ pc[p] = "pub_books"
  /\ Assign(p, "book_by_id", BuildBookById(loc[p].cat))
  /\ Go(p, "pub_genres")
  /\ UNCHANGED << http, pg, hs, rq, rs, sc, ttl, now, loc, ret, obs, fresh, failed, nCalls, nOk, nCat, nTx >>

\* rebuild, line 82
PublishGenres(p) ==
  /\ pc[p] = "pub_genres"
  /\ Assign(p, "genre_to_book_ids", BuildGenreIndex(loc[p].cat))
  /\ Go(p, "pub_authors")
  /\ UNCHANGED << http, pg, hs, rq, rs, sc, ttl, now, loc, ret, obs, fresh, failed, nCalls, nOk, nCat, nTx >>

\* rebuild, line 83
PublishAuthors(p) ==
  /\ pc[p] = "pub_authors"
  /\ Assign(p, "author_to_book_ids", BuildAuthorIndex(loc[p].cat))
  /\ Go(p, "pub_pop")
  /\ UNCHANGED << http, pg, hs, rq, rs, sc, ttl, now, loc, ret, obs, fresh, failed, nCalls, nOk, nCat, nTx >>

\* rebuild, line 84
PublishPopularity(p) ==
  /\ pc[p] = "pub_pop"
  /\ Assign(p, "popularity", BuildPopularity(loc[p].tx))
  /\ Go(p, "pub_time")
  /\ UNCHANGED << http, pg, hs, rq, rs, sc, ttl, now, loc, ret, obs, fresh, failed, nCalls, nOk, nCat, nTx >>

\* rebuild, line 85, and the return to the caller
PublishTime(p) ==
  /\ pc[p] = "pub_time"
  /\ now' \in Clock
  /\ Assign(p, "last_built_at", now')
  /\ Go(p, RebuildDone(p))
  /\ loc' = [loc EXCEPT ![p] = NoLoc]
  /\ UNCHANGED << http, pg, hs, rq, rs, sc, ttl, ret, obs, fresh, failed, nCalls, nOk, nCat, nTx >>

\* ensure_indices, line 40: return self.indices (a reference to the one object)
EnsureReturn(t) ==
  /\ pc[t] = "return"
  /\ ret' = [ret EXCEPT ![t] = "indices"]
  /\ fresh' = [fresh EXCEPT ![t] = FALSE]
  /\ nOk' = nOk + 1
  /\ Go(t, ReadPc[1])
  /\ UNCHANGED << http, pg, hs, rq, rs, sc, ttl, now, indices, loc, origin, wrote, obs, failed,
                  nCalls, nCat, nTx >>

Rebuild(p) ==
  \/ ListBooks(p)
  \/ ListBooksFail(p)
  \/ ConvertFail(p)
  \/ ListTransactions(p)
  \/ ListTransactionsFail(p)
  \/ PublishBooks(p)
  \/ PublishGenres(p)
  \/ PublishAuthors(p)
  \/ PublishPopularity(p)
  \/ PublishTime(p)

\* ------------------------------------------- api.recommendations_health
\* a request arrives and calls indexer.ensure_indices() on the shared Indexer
HealthStart(t) ==
  /\ pc[t] = "idle"
  /\ nCalls < MaxCalls
  /\ nCalls' = nCalls + 1
  /\ Go(t, "ensure")
  /\ wrote' = [wrote EXCEPT ![t] = {}]
  /\ UNCHANGED << http, pg, hs, rq, rs, sc, ttl, now, indices, loc, ret, origin, obs, fresh, failed,
                  nOk, nCat, nTx >>

\* lines 298-301: stale = ttl > 0 and (now - last_built) > ttl, with the TTL
\* read from the environment variable the Indexer read at import
HealthStale == ttl > 0 /\ (now' - indices.last_built_at) > ttl

\* one attribute read through idx; the read of last_built_at is followed by
\* the clock read and the computation of the stale flag (lines 298-301)
HealthRead(t) ==
  /\ \E k \in DOMAIN ReadOrder :
       /\ pc[t] = ReadPc[k]
       /\ obs' = [obs EXCEPT ![t] =
                    IF ReadOrder[k] = "last_built_at" THEN @
                    ELSE @ \cup {origin[ReadOrder[k]]}]
       /\ IF ReadOrder[k] = "last_built_at"
          THEN /\ now' \in Clock
               /\ hs' = [hs EXCEPT ![t] = IF HealthStale THEN "stale" ELSE "fresh"]
          ELSE UNCHANGED << now, hs >>
       /\ Go(t, ReadPc[k + 1])
  /\ UNCHANGED << http, pg, rq, rs, sc, ttl, indices, loc, ret, origin, wrote,
                  fresh, failed, nCalls, nOk, nCat, nTx >>

\* lines 324-330: the response is sent, idx goes out of scope
HealthRespond(t) ==
  /\ pc[t] = "respond"
  /\ Go(t, "idle")
  /\ ret' = [ret EXCEPT ![t] = "none"]
  /\ obs' = [obs EXCEPT ![t] = {}]
  /\ wrote' = [wrote EXCEPT ![t] = {}]
  /\ hs' = [hs EXCEPT ![t] = "none"]
  /\ UNCHANGED << http, pg, rq, rs, sc, ttl, now, indices, loc, origin, fresh,
                  failed, nCalls, nOk, nCat, nTx >>

\* the exception of ensure_indices leaves the handler
HealthRaise(t) ==
  /\ pc[t] = "raised"
  /\ Go(t, "idle")
  /\ failed' = [failed EXCEPT ![t] = FALSE]
  /\ fresh' = [fresh EXCEPT ![t] = FALSE]
  /\ UNCHANGED << http, pg, hs, rq, rs, sc, ttl, now, indices, loc, ret, origin, wrote, obs,
                  nCalls, nOk, nCat, nTx >>

Next ==
  \/ \E t \in Threads :
       \/ HealthStart(t)
       \/ EnsureCheck(t)
       \/ Rebuild(t)
       \/ EnsureReturn(t)
       \/ HealthRead(t)
       \/ HealthRespond(t)
       \/ HealthRaise(t)

Spec == Init /\ [][Next]_vars

\* ------------------------------------------------------------ worker.main
\* line 19: the loop body calls indexer.rebuild(), whatever the snapshot's age
WorkerTry ==
  /\ pc[Worker] = "w_try"
  /\ Go(Worker, "list_books")
  /\ wrote' = [wrote EXCEPT ![Worker] = {}]
  /\ UNCHANGED << http, pg, hs, rq, rs, sc, ttl, now, indices, loc, ret, origin, obs, fresh, failed,
                  nCalls, nOk, nCat, nTx >>

\* line 20: the rebuild returned, its result is logged
WorkerLog ==
  /\ pc[Worker] = "w_log"
  /\ Go(Worker, "w_sleep")
  /\ UNCHANGED << http, pg, hs, rq, rs, sc, ttl, now, indices, loc, ret, origin, wrote, obs, fresh,
                  failed, nCalls, nOk, nCat, nTx >>

\* lines 21-22: except Exception logs the failure
WorkerExcept ==
  /\ pc[Worker] = "w_except"
  /\ Go(Worker, "w_sleep")
  /\ UNCHANGED << http, pg, hs, rq, rs, sc, ttl, now, indices, loc, ret, origin, wrote, obs, fresh,
                  failed, nCalls, nOk, nCat, nTx >>

\* line 23: time.sleep(interval), then the next iteration
WorkerSleep ==
  /\ pc[Worker] = "w_sleep"
  /\ Go(Worker, "w_try")
  /\ UNCHANGED << http, pg, hs, rq, rs, sc, ttl, now, indices, loc, ret, origin, wrote, obs, fresh,
                  failed, nCalls, nOk, nCat, nTx >>

WorkerStep ==
  \/ WorkerTry
  \/ Rebuild(Worker)
  \/ WorkerLog
  \/ WorkerExcept
  \/ WorkerSleep

\* the worker process: its own Indexer, no request threads
InitWorker ==
  /\ InitCommon
  /\ sc = NoScoring
  /\ rq = NoRequest
  /\ rs = NoResponse
  /\ http = NoHttp
  /\ pg = NoPage
  /\ pc = [p \in Procs |-> IF p = Worker THEN "w_try" ELSE "idle"]

NextWorker == WorkerStep

SpecWorker == InitWorker /\ [][NextWorker]_vars

\* the worker's main thread is the only thread of its process: it keeps running
FairWorker == SpecWorker /\ WF_vars(NextWorker)

\* ------------------------------------------------------- the scorer alone
InitScore ==
  /\ InitCommon
  /\ pc = [p \in Procs |-> "off"]
  /\ sc \in [seed_books : SeedSets, candidate : BookPool,
             popularity : PopularityMaps, filter : BOOLEAN,
             w : WeightSettings, done : {FALSE}, out : {NoResult}]
  /\ rq = NoRequest
  /\ rs = NoResponse
  /\ http = NoHttp
  /\ pg = NoPage

\* s, factors = score_simple(seed_books, b, idx.popularity)
ScoreSimple ==
  /\ ~ sc.done
  /\ sc' = [sc EXCEPT
              !.done = TRUE,
              !.out = score_simple(sc.seed_books, sc.candidate, sc.popularity,
                                   sc.filter, sc.w)]
  /\ UNCHANGED << http, pg, hs, rq, rs, ttl, now, indices, pc, loc, ret, origin, wrote, obs,
                  fresh, failed, nCalls, nOk, nCat, nTx >>

NextScore == ScoreSimple

SpecScore == InitScore /\ [][NextScore]_vars

\* ------------------------------------------- api: one recommendation request
\* the handlers of get_similar and get_personalized build their own Indexer,
\* so each request works on the snapshot of its own rebuild

CatC    == << Item("b1", {"g1"}, {"a2"}, "in", TRUE),
              Item("b2", {"g1", "g2"}, {"a1"}, "in", TRUE),
              Item("b3", {"g3"}, {"a2"}, "out", TRUE),
              Item("b4", {"g4"}, {"a1", "a2"}, "in", TRUE) >>
CatDup2 == << Item("b1", {"g1"}, {"a1"}, "in", TRUE),
              Item("b1", {"g2"}, {"a2"}, "in", TRUE),
              Item("b2", {"g1"}, {"a1"}, "in", TRUE) >>
\* what the inventory service may hold when a request arrives
\* an out-of-stock item ahead of an in-stock one
CatOut == << Item("b2", {"g1"}, {"a1"}, "out", TRUE),
             Item("b1", {"g2"}, {"a1"}, "in", TRUE) >>
ApiCatalogs == {CatA, CatC, CatDup2, CatOut, CatEmpty, CatBad}
ApiFeeds    == {TxA, TxB, TxEmpty}

\* request parameters
BookIds     == {"b1", "b2", "b4", "b9"}
SeedIdSets  == {S \in SUBSET BookIds : Cardinality(S) <= MaxSeeds}
GenreLists  == {{}, {"g1"}, {"g1", "g4"}, {"g9"}}
AuthorLists == {{}, {"a2"}}
Limits      == (1 .. MaxLimit) \cup {DefaultLimit}

SimilarRequests ==
  [kind : {"similar"}, cat : ApiCatalogs, tx : ApiFeeds, filter : BOOLEAN,
   w : WeightSettings, book_id : BookIds, seeds : {{}}, seed_genres : {{}},
   seed_authors : {{}}, limit : Limits, fetch : {"ok"}]

\* seeds is seed_book_ids + recently_viewed + cart_book_ids
PersonalizedRequests ==
  [kind : {"personalized"}, cat : ApiCatalogs, tx : ApiFeeds, filter : BOOLEAN,
   w : WeightSettings, book_id : {"-"}, seeds : SeedIdSets,
   seed_genres : GenreLists, seed_authors : AuthorLists,
   limit : Limits \cup {NoLimit}, fetch : {"ok"}]

\* page and per_page do not reach the ranking: one request per inventory state
TrendingRequests ==
  [kind : {"trending"}, cat : ApiCatalogs, tx : ApiFeeds, filter : {TRUE},
   w : {DefaultWeights}, book_id : {"-"}, seeds : {{}}, seed_genres : {{}},
   seed_authors : {{}}, limit : {DefaultLimit}, fetch : {"ok"}]

\* requests that meet an inventory service whose books or transactions
\* endpoint fails: fetch names the call that raises
Outages == {"books_down", "tx_down"}
OutageRequests ==
  [kind : {"similar", "personalized", "trending"}, cat : {CatA}, tx : {TxA},
   filter : {TRUE}, w : {DefaultWeights}, book_id : {"b1", "b9"},
   seeds : {{}, {"b1"}}, seed_genres : {{}}, seed_authors : {{}},
   limit : {DefaultLimit}, fetch : Outages]

\* ensure_indices on the Indexer the handler has just constructed:
\* not self.indices.book_by_id holds, _is_stale() is not evaluated
RebuildsOnNew_TTLOnly == ttl <= 0

RebuildsOnNew == DOMAIN EmptyIndices.book_by_id = {}

RebuildRaises_FetchOnly == rq.fetch \in Outages

\* rebuild raises: list_books fails, an item does not convert, or
\* list_transactions fails
RebuildRaises ==
  rq.fetch \in Outages \/ ~ Convertible(rq.cat)

\* rebuild reaches line 67
ReachesTransactions == rq.fetch # "books_down" /\ Convertible(rq.cat)

\* the source calls of the request's ensure_indices
SourceCalls ==
  /\ nCat' = IF RebuildsOnNew THEN nCat + 1 ELSE nCat
  /\ nTx' = IF RebuildsOnNew /\ ReachesTransactions THEN nTx + 1 ELSE nTx

\* ensure_indices raised: raise_upstream_error
EnsureFails == RebuildsOnNew /\ RebuildRaises

\* get_indexer_with_request_id(request_id).ensure_indices() on a new Indexer
LoadIndices(cat, tx) ==
  [book_by_id |-> BuildBookById(cat),
   genre_to_book_ids |-> BuildGenreIndex(cat),
   author_to_book_ids |-> BuildAuthorIndex(cat),
   popularity |-> BuildPopularity(tx)]

\* d.get(k, set())
Lookup(d, k) == IF k \in DOMAIN d THEN d[k] ELSE {}

\* idx.popularity.get(i, 0.0)
PopularityOf(idx, i) ==
  IF i \in DOMAIN idx.popularity THEN idx.popularity[i] ELSE Zero

\* a < b on floats
Less(a, b) == a[1] * b[2] < b[1] * a[2]

Min(a, b) == IF a < b THEN a ELSE b

\* the two loops that fill candidate_ids
CollectCandidates(idx, seed_books) ==
  UNION {Lookup(idx.genre_to_book_ids, g) :
           g \in UNION {b.genres : b \in seed_books}}
  \cup
  UNION {Lookup(idx.author_to_book_ids, a) :
           a \in UNION {b.authors : b \in seed_books}}

SimilarCandidates_GenresOnly(idx, book_id) ==
  UNION {Lookup(idx.genre_to_book_ids, g) : g \in idx.book_by_id[book_id].genres}
  \ {book_id}

\* get_similar: candidate_ids.discard(book_id)
SimilarCandidates(idx, book_id) ==
  CollectCandidates(idx, {idx.book_by_id[book_id]}) \ {book_id}

PersonalizedCandidates_KeepSeeds(idx, seed_books) ==
  CollectCandidates(idx, seed_books)

\* get_personalized: candidate_ids.difference_update({b.id for b in seed_books})
PersonalizedCandidates(idx, seed_books) ==
  CollectCandidates(idx, seed_books) \ {b.id : b \in seed_books}

\* build_recommendation_item(b, s, factors)
Recommendation(b, s, factors) ==
  [id |-> b.id, score |-> s, factors |-> factors]

Scored_KeepAll(idx, seed_books, candidate_ids, filter, w) ==
  {LET r == score_simple(seed_books, idx.book_by_id[c], idx.popularity, filter, w)
   IN  Recommendation(idx.book_by_id[c], r.score, r.factors) :
     c \in candidate_ids \cap DOMAIN idx.book_by_id}

\* the scoring loop: if s <= 0: continue
Scored(idx, seed_books, candidate_ids, filter, w) ==
  {LET r == score_simple(seed_books, idx.book_by_id[c], idx.popularity, filter, w)
   IN  Recommendation(idx.book_by_id[c], r.score, r.factors) :
     c \in {d \in candidate_ids \cap DOMAIN idx.book_by_id :
              ~ (score_simple(seed_books, idx.book_by_id[d], idx.popularity,
                              filter, w).score[1] <= 0)}}

\* the orders a list built from the set S can have
Perms(S) ==
  {p \in [1 .. Cardinality(S) -> S] :
     \A i, j \in 1 .. Cardinality(S) : i # j => p[i] # p[j]}

\* sorted(S, key=..., reverse=True): S comes in the iteration order of a set,
\* so elements with equal keys can end in any order
SortedDescending(S, key) ==
  {p \in Perms(S) :
     \A i \in 1 .. Cardinality(S) - 1 : ~ Less(key[p[i]], key[p[i + 1]])}

\* p[:n]
Slice(p, n) == SubSeq(p, 1, Min(n, Len(p)))

Rank_TruncateFirst(scored, limit) ==
  UNION {SortedDescending(T, [r \in T |-> r.score]) :
           T \in {U \in SUBSET scored :
                    Cardinality(U) = Min(limit, Cardinality(scored))}}

\* sorted(scored, key=lambda r: r.score, reverse=True)[:limit]
Rank(scored, limit) ==
  {Slice(p, limit) : p \in SortedDescending(scored, [r \in scored |-> r.score])}

\* list(feature_candidates)[:3], resolved in book_by_id
PseudoSeeds(idx, feature_candidates) ==
  {{idx.book_by_id[i] : i \in P \cap DOMAIN idx.book_by_id} :
     P \in {Q \in SUBSET feature_candidates :
              Cardinality(Q) = Min(PseudoSeedCount, Cardinality(feature_candidates))}}

ResolveSeeds_AllOrNothing(idx, seeds) ==
  IF seeds \subseteq DOMAIN idx.book_by_id
  THEN {idx.book_by_id[s] : s \in seeds} ELSE {}

\* seed_books = [idx.book_by_id[s] for s in seeds if s in idx.book_by_id]
ResolveSeeds(idx, seeds) ==
  {idx.book_by_id[s] : s \in seeds \cap DOMAIN idx.book_by_id}

\* idx.book_by_id.keys(): a dict keeps its keys in the order of their first
\* insertion, which is the order of the catalog payload
KeyOrder(cat) ==
  LET first == SelectSeq([i \in 1 .. Len(cat) |-> i],
                         LAMBDA i : \A j \in 1 .. i - 1 : cat[j].id # cat[i].id)
  IN  [k \in 1 .. Len(first) |-> cat[first[k]].id]

\* sorted(keys, key=..., reverse=True) on a list: the sort is stable, keys
\* with equal popularity stay in the order of the list
StableDescending(keys, key) ==
  LET S == {keys[k] : k \in DOMAIN keys}
      pos == [i \in S |-> CHOOSE k \in DOMAIN keys : keys[k] = i]
  IN  CHOOSE p \in SortedDescending(S, key) :
        \A i, j \in DOMAIN p :
          (i < j /\ key[p[i]] = key[p[j]]) => pos[p[i]] < pos[p[j]]

\* the ranking of all the books by popularity, lines 193 and 249
PopularityRanking(idx, keys) ==
  StableDescending(keys, [i \in DOMAIN idx.book_by_id |-> PopularityOf(idx, i)])

\* the trending fallback of get_personalized, lines 193-195
TrendingFallback(idx, keys, limit) ==
  LET ranked_ids == PopularityRanking(idx, keys)
      top_ids == Slice(ranked_ids, limit)
      kept == SelectSeq(top_ids, LAMBDA i : idx.book_by_id[i].in_stock)
  IN  [k \in 1 .. Len(kept) |->
         Recommendation(idx.book_by_id[kept[k]], PopularityOf(idx, kept[k]),
                        [popularity |-> PopularityOf(idx, kept[k])])]

\* GET /api/v1/recommendations/similar
GetSimilar ==
  /\ rq.kind = "similar"
  /\ rs.status = "none"
  /\ SourceCalls
  /\ IF EnsureFails
     THEN rs' = Failure("502")
     ELSE LET idx == LoadIndices(rq.cat, rq.tx) IN
          IF rq.book_id \notin DOMAIN idx.book_by_id
          THEN rs' = Failure("404")
          ELSE LET seed == idx.book_by_id[rq.book_id]
                   candidate_ids == SimilarCandidates(idx, rq.book_id)
                   scored == Scored(idx, {seed}, candidate_ids, rq.filter, rq.w)
               IN  \E ranked \in Rank(scored, rq.limit) :
                     rs' = [status |-> "200", path |-> "similar",
                            seed_ids |-> {rq.book_id},
                            feature_candidates |-> {},
                            candidate_ids |-> candidate_ids,
                            scored |-> scored, items |-> ranked]
  /\ UNCHANGED << http, pg, hs, rq, sc, ttl, now, indices, pc, loc, ret, origin, wrote, obs,
                  fresh, failed, nCalls, nOk >>

\* POST /api/v1/recommendations/personalized
GetPersonalized ==
  /\ rq.kind = "personalized"
  /\ rs.status = "none"
  /\ SourceCalls
  /\ IF EnsureFails
     THEN rs' = Failure("502")
     ELSE LET idx == LoadIndices(rq.cat, rq.tx)
              resolved == ResolveSeeds(idx, rq.seeds)
              feature_candidates ==
                UNION {Lookup(idx.genre_to_book_ids, g) : g \in rq.seed_genres}
                \cup
                UNION {Lookup(idx.author_to_book_ids, a) : a \in rq.seed_authors}
              limit == IF rq.limit = NoLimit THEN DefaultLimit ELSE rq.limit
          IN  IF resolved = {} /\ feature_candidates = {}
              THEN \E recs \in {TrendingFallback(idx, KeyOrder(rq.cat), limit)} :
                     rs' = [status |-> "200", path |-> "trending",
                            seed_ids |-> {}, feature_candidates |-> {},
                            candidate_ids |-> {}, scored |-> {}, items |-> recs]
              ELSE \E seed_books \in (IF resolved # {} THEN {resolved}
                                      ELSE PseudoSeeds(idx, feature_candidates)) :
                     LET candidate_ids == PersonalizedCandidates(idx, seed_books)
                         scored == Scored(idx, seed_books, candidate_ids,
                                          rq.filter, rq.w)
                     IN  IF candidate_ids \subseteq DOMAIN idx.book_by_id
                         THEN \E ranked \in Rank(scored, limit) :
                                rs' = [status |-> "200",
                                       path |-> IF resolved # {} THEN "personalized"
                                                ELSE "feature-based",
                                       seed_ids |-> {b.id : b \in seed_books},
                                       feature_candidates |->
                                         IF resolved # {} THEN {}
                                         ELSE feature_candidates,
                                       candidate_ids |-> candidate_ids,
                                       scored |-> scored, items |-> ranked]
                         ELSE rs' = Failure("500")
  /\ UNCHANGED << http, pg, hs, rq, sc, ttl, now, indices, pc, loc, ret, origin, wrote, obs,
                  fresh, failed, nCalls, nOk >>

\* get_trending, lines 249-263: the popularity ranking of the in-stock books
TrendingRanking(idx, keys) ==
  SelectSeq(PopularityRanking(idx, keys), LAMBDA i : idx.book_by_id[i].in_stock)

\* GET /api/v1/recommendations/trending: PaginationParams has the fields page
\* and per_page, so pagination.size at line 267 raises AttributeError, which
\* the handler turns into the internal error
GetTrending ==
  /\ rq.kind = "trending"
  /\ rs.status = "none"
  /\ SourceCalls
  /\ IF EnsureFails
     THEN rs' = Failure("502")
     ELSE LET available_items == TrendingRanking(LoadIndices(rq.cat, rq.tx),
                                                 KeyOrder(rq.cat))
          IN  rs' = Failure("500")
  /\ UNCHANGED << http, pg, hs, rq, sc, ttl, now, indices, pc, loc, ret, origin, wrote, obs,
                  fresh, failed, nCalls, nOk >>

InitApi ==
  /\ InitCommon
  /\ sc = NoScoring
  /\ pc = [p \in Procs |-> "off"]
  /\ rq \in SimilarRequests \cup PersonalizedRequests \cup TrendingRequests
            \cup OutageRequests
  /\ rs = NoResponse
  /\ http = NoHttp
  /\ pg = NoPage

NextApi ==
  \/ GetSimilar
  \/ GetPersonalized
  \/ GetTrending

SpecApi == InitApi /\ [][NextApi]_vars

\* ------------------------------- clients: StandardizedHTTPClient._make_request
\* max_retries is a constructor argument (default 3); -1 leaves the loop empty
Retries == -1 .. MaxRetries

\* what one client.request + raise_for_status can end in
Outcomes == {"2xx", "4xx", "5xx", "network"}

\* the exception an outcome raises
ErrorOf(o) == IF o = "network" THEN "RequestError" ELSE "HTTPStatusError"

\* an except branch that raises whenever the attempt was the last one only
RaisesNow_LastAttemptOnly(o, attempt, max_retries) == attempt = max_retries

\* lines 284-300: the except branch re-raises
RaisesNow(o, attempt, max_retries) ==
  IF o = "network" THEN attempt = max_retries
  ELSE o = "4xx" \/ attempt = max_retries

\* for attempt in range(self.max_retries + 1): the position after attempt a
LoopHead(a, max_retries) == IF a <= max_retries THEN "try" ELSE "after"

\* lines 268-300: one iteration's request and its except branches
HttpAttempt ==
  /\ http.at = "try"
  /\ \E o \in Outcomes :
       http' = [http EXCEPT
                  !.log = Append(@, o),
                  !.at = IF o = "2xx" \/ RaisesNow(o, http.attempt, http.max_retries)
                         THEN "done" ELSE "backoff",
                  !.result = IF o = "2xx" THEN "response"
                             ELSE IF RaisesNow(o, http.attempt, http.max_retries)
                             THEN ErrorOf(o) ELSE @]
  /\ UNCHANGED << pg, hs, rq, rs, sc, ttl, now, indices, pc, loc, ret, origin,
                  wrote, obs, fresh, failed, nCalls, nOk, nCat, nTx >>

\* lines 302-309: time.sleep(2 ** attempt), then the next iteration
HttpBackoff ==
  /\ http.at = "backoff"
  /\ http' = [http EXCEPT
                !.slept = IF http.attempt < http.max_retries
                          THEN Append(@, 2 ^ http.attempt) ELSE @,
                !.attempt = @ + 1,
                !.at = LoopHead(http.attempt + 1, http.max_retries)]
  /\ UNCHANGED << pg, hs, rq, rs, sc, ttl, now, indices, pc, loc, ret, origin,
                  wrote, obs, fresh, failed, nCalls, nOk, nCat, nTx >>

\* line 311: raise last_exception or Exception(...), after the loop
HttpAfterLoop ==
  /\ http.at = "after"
  /\ http' = [http EXCEPT
                !.at = "done",
                !.result = IF http.log = << >> THEN "Exception"
                           ELSE ErrorOf(http.log[Len(http.log)])]
  /\ UNCHANGED << pg, hs, rq, rs, sc, ttl, now, indices, pc, loc, ret, origin,
                  wrote, obs, fresh, failed, nCalls, nOk, nCat, nTx >>

InitHttp ==
  /\ InitCommon
  /\ pc = [p \in Procs |-> "off"]
  /\ sc = NoScoring
  /\ rq = NoRequest
  /\ rs = NoResponse
  /\ pg = NoPage
  /\ \E m \in Retries :
       http = [NoHttp EXCEPT !.max_retries = m, !.at = LoopHead(0, m)]

NextHttp ==
  \/ HttpAttempt
  \/ HttpBackoff
  \/ HttpAfterLoop

SpecHttp == InitHttp /\ [][NextHttp]_vars

\* _make_request is straight-line code of one thread; the request has a
\* timeout and the sleep is finite, so every step of the loop is taken
FairHttp == SpecHttp /\ WF_vars(NextHttp)

\* --------------------------------------------------- bookverse_core: paginate
Totals   == 0 .. MaxTotal
Pages    == 1 .. MaxPage
PerPages == 1 .. MaxPerPage

\* math.ceil(total / per_page) for a total >= 0 and a per_page >= 1
CeilDiv(total, per_page) ==
  IF total % per_page = 0 THEN total \div per_page
  ELSE (total \div per_page) + 1

\* create_pagination_meta without the floor of one page
create_pagination_meta_NoFloor(total, page, per_page) ==
  LET pages == CeilDiv(total, per_page) IN
    [total |-> total, page |-> page, per_page |-> per_page, pages |-> pages,
     has_next |-> page < pages, has_prev |-> page > 1]

create_pagination_meta(total, page, per_page) ==
  LET ceil == CeilDiv(total, per_page)
      pages == IF 1 > ceil THEN 1 ELSE ceil IN
    [total |-> total, page |-> page, per_page |-> per_page, pages |-> pages,
     has_next |-> page < pages, has_prev |-> page > 1]

\* PaginationParams.offset
Offset(page, per_page) == (page - 1) * per_page

\* paginate(items, total, pagination)
Paginate ==
  /\ ~ pg.done
  /\ pg' = [pg EXCEPT
              !.done = TRUE,
              !.offset = Offset(pg.page, pg.per_page),
              !.meta = create_pagination_meta(pg.total, pg.page, pg.per_page)]
  /\ UNCHANGED << http, hs, rq, rs, sc, ttl, now, indices, pc, loc, ret, origin,
                  wrote, obs, fresh, failed, nCalls, nOk, nCat, nTx >>

InitPage ==
  /\ InitCommon
  /\ pc = [p \in Procs |-> "off"]
  /\ sc = NoScoring
  /\ rq = NoRequest
  /\ rs = NoResponse
  /\ http = NoHttp
  /\ pg \in [total : Totals, page : Pages, per_page : PerPages, done : {FALSE},
              offset : {0}, meta : {NoMeta}]

NextPage == Paginate

SpecPage == InitPage /\ [][NextPage]_vars

\* ================================================================ claims
Structures == Fields \ {"last_built_at"}
Quiescent  == \A t \in Threads : pc[t] = "idle"
Built      == origin["last_built_at"] # 0

\* C1: a reader running concurrently with a rebuild never observes
\* book_by_id, genre_to_book_ids, author_to_book_ids and popularity that
\* come from different fetches.
C1_ReaderSeesOneFetch ==
  \A t \in Threads : Cardinality(obs[t]) <= 1

\* C2: a rebuild that raises has assigned no field of the Indexer's indices:
\* the step that raises leaves book_by_id, genre_to_book_ids,
\* author_to_book_ids, popularity and last_built_at as they were, and the
\* call assigned none of them before it.
C2_FailedRebuildKeepsSnapshot ==
  /\ [](\A t \in Threads : pc[t] = "raised" => wrote[t] = {})
  /\ [][\A t \in Threads :
          (pc[t] # "raised" /\ pc'[t] = "raised") => indices' = indices]_vars

C2_Witness ==
  \E t \in Threads :
    /\ pc[t] = "raised"
    /\ Built
    /\ DOMAIN indices.book_by_id # {}
    /\ \A f \in Fields : origin[f] = origin["last_built_at"]

\* C3: with TTL > 0, an ensure_indices call made while the last successful
\* rebuild is at most TTL seconds old performs no rebuild: it never gets to
\* the catalog fetch.
C3_NoRebuildWhileFresh ==
  \A t \in Threads : ~ (pc[t] = "list_books" /\ fresh[t])

\* C4: with TTL > 0, ensure_indices returns after a full rebuild exactly when
\* the snapshot was never built or older than TTL at its check; a snapshot
\* whose age is at most TTL is returned as it is.
C4_RebuildExactlyWhenStale ==
  \A t \in Threads :
    (ttl > 0 /\ pc[t] = "return") => ((wrote[t] = Fields) <=> ~ fresh[t])

\* C5: with TTL <= 0 every ensure_indices call rebuilds: once N calls have
\* all returned, the catalog source and the transaction source have each
\* been called exactly N times.
C5_AlwaysRebuild ==
  (ttl <= 0 /\ Quiescent /\ nOk = nCalls) => (nCat = nCalls /\ nTx = nCalls)

C5_Witness ==
  /\ ttl <= 0
  /\ Quiescent
  /\ nOk = nCalls
  /\ nCalls >= 2
  /\ nCat = nCalls
  /\ nTx = nCalls

\* C6: when the rebuild started by ensure_indices fails, the call raises and
\* returns no snapshot: the caller never gets the previous snapshot from it.
C6_FailurePropagates ==
  \A t \in Threads : failed[t] => (pc[t] = "raised" /\ ret[t] = "none")

C6_Witness ==
  \E t \in Threads : failed[t] /\ pc[t] = "raised" /\ Built

\* C7: a snapshot handed out by ensure_indices is never modified afterwards:
\* while a caller holds it, no field seen through it changes.
C7_ReturnedSnapshotImmutable ==
  [][\A t \in Threads :
       (ret[t] = "indices" /\ ret'[t] = "indices") => indices' = indices]_vars

\* C8: when overlapping rebuilds of one Indexer have all completed, the four
\* structures come from the fetch of one single rebuild.
C8_OverlappingRebuildsNoMix ==
  Quiescent => \A f, g \in Structures : origin[f] = origin[g]

\* C9: the worker loop attempts a rebuild in every iteration, a rebuild that
\* raises never ends the loop, and after a failed rebuild the worker sleeps
\* and then attempts another rebuild.
C9_WorkerKeepsRebuilding ==
  /\ [](pc[Worker] # "w_exit")
  /\ [][pc[Worker] = "w_try" => pc'[Worker] = "list_books"]_vars
  /\ (pc[Worker] = "w_except") ~> (pc[Worker] = "w_sleep")
  /\ (pc[Worker] = "w_sleep") ~> (pc[Worker] = "list_books")
  /\ []<>(pc[Worker] = "list_books")

C9_Witness ==
  pc[Worker] = "w_except" /\ Built

\* C10: with the out-of-stock exclusion policy enabled, a candidate that is
\* not in stock gets score 0 and the factors genre, author and popularity 0,
\* whatever its overlap with the seeds and its popularity.
C10_OutOfStockScoresZero ==
  (sc.done /\ sc.filter /\ ~ sc.candidate.in_stock) =>
    /\ sc.out.score = Zero
    /\ \A k \in {"genre", "author", "popularity"} : sc.out.factors[k] = Zero

C10_Witness ==
  /\ sc.done /\ sc.filter /\ ~ sc.candidate.in_stock
  /\ \E b \in sc.seed_books :
       /\ b.genres \cap sc.candidate.genres # {}
       /\ b.authors \cap sc.candidate.authors # {}
  /\ sc.candidate.id \in DOMAIN sc.popularity
  /\ sc.popularity[sc.candidate.id] # Zero
  /\ sc.w = DefaultWeights
  /\ sc.out.score = Zero

\* ------------------------------------------------------ C11: seeds excluded
RequestSeeds == IF rq.kind = "similar" THEN {rq.book_id} ELSE rq.seeds
ReturnedIds  == {rs.items[i].id : i \in DOMAIN rs.items}

\* C11: no seed id of the request is in the candidate set, and no seed item is
\* among the recommendations returned by get_similar or by get_personalized
\* run on seeds resolved from the catalog.
C11_SeedsNeverRecommended ==
  (rs.status = "200" /\ rs.path \in {"similar", "personalized"}) =>
    /\ RequestSeeds \cap rs.candidate_ids = {}
    /\ RequestSeeds \cap ReturnedIds = {}

\* two resolved seeds that are indexed under their own genres, and a
\* non-empty answer
C11_Witness ==
  /\ rs.status = "200"
  /\ rs.path = "personalized"
  /\ Cardinality(rs.seed_ids) = 2
  /\ \A s \in rs.seed_ids :
       \E i \in DOMAIN rq.cat : rq.cat[i].id = s /\ rq.cat[i].genres # {}
  /\ ReturnedIds # {}

\* ---------------------------------------- what a successful rebuild stores
\* the step on which the worker's rebuild returns: line 85 is executed
RebuildReturns == pc[Worker] = "pub_time" /\ pc'[Worker] = "w_log"

StockOutRecords(txs) ==
  {i \in DOMAIN txs : txs[i].transaction_type = "stock_out"}

\* |quantity_change| of a record, 1 for a record without quantity_change
Magnitude(t) ==
  IF ~ t.has_qty THEN 1
  ELSE IF t.quantity_change < 0 THEN 0 - t.quantity_change ELSE t.quantity_change

\* the raw outbound-quantity sum of id over the feed txs
RawSum(txs, id) ==
  LET part[n \in 0 .. Len(txs)] ==
        IF n = 0 THEN 0
        ELSE part[n - 1] +
             (IF n \in StockOutRecords(txs) /\ txs[n].book_id = id
              THEN Magnitude(txs[n]) ELSE 0)
  IN  part[Len(txs)]

StockOutIds(txs) == {txs[i].book_id : i \in StockOutRecords(txs)}

\* the ids whose raw sum no other id exceeds
TopIds(txs) ==
  {k \in StockOutIds(txs) :
     \A j \in StockOutIds(txs) : RawSum(txs, j) <= RawSum(txs, k)}

One == Frac(1, 1)

InUnitInterval(x) == 0 <= x[1] /\ x[1] <= x[2]

\* C12 as stated: after a successful rebuild every popularity value lies in
\* [0,1], and whenever the feed holds at least one stock_out record each item
\* with the highest raw outbound-quantity sum has popularity exactly 1.0.
C12_TopPopularityIsOne ==
  [][RebuildReturns =>
       LET txs == loc[Worker].tx
           pop == indices'.popularity
       IN  /\ \A k \in DOMAIN pop : InUnitInterval(pop[k])
           /\ StockOutRecords(txs) # {} =>
                \A k \in TopIds(txs) : k \in DOMAIN pop /\ pop[k] = One]_vars

\* C12, amended: after a successful rebuild every popularity value lies in
\* [0,1]; when the highest raw outbound-quantity sum is positive each item
\* that has it gets popularity exactly 1.0; when the feed holds stock_out
\* records whose quantities are all 0, every popularity value is 0.
C12_TopPopularityIsOneUnlessAllZero ==
  [][RebuildReturns =>
       LET txs == loc[Worker].tx
           pop == indices'.popularity
       IN  /\ \A k \in DOMAIN pop : InUnitInterval(pop[k])
           /\ \A k \in TopIds(txs) :
                /\ k \in DOMAIN pop
                /\ RawSum(txs, k) > 0 => pop[k] = One
                /\ RawSum(txs, k) = 0 => \A j \in DOMAIN pop : pop[j] = Zero]_vars

\* a rebuild has returned with one item at 1.0 and another strictly between
C12_Witness ==
  /\ pc[Worker] = "w_log"
  /\ \E k \in DOMAIN indices.popularity : indices.popularity[k] = One
  /\ \E k \in DOMAIN indices.popularity :
       /\ Less(Zero, indices.popularity[k])
       /\ Less(indices.popularity[k], One)

\* --------------------------------------------------------- the scorer's value
\* the unions of genres and authors over the seed items of the call
SeedGenres  == UNION {b.genres : b \in sc.seed_books}
SeedAuthors == UNION {b.authors : b \in sc.seed_books}

GenreOverlap  == Cardinality({g \in sc.candidate.genres : g \in SeedGenres})
AuthorOverlap == Cardinality({a \in sc.candidate.authors : a \in SeedAuthors})

\* P(c.id): 0 when the id is absent from the popularity map
CandidatePopularity ==
  IF sc.candidate.id \in DOMAIN sc.popularity
  THEN sc.popularity[sc.candidate.id] ELSE Zero

\* the call scores its candidate: in stock, or exclusion policy disabled
IsScored == sc.done /\ (sc.candidate.in_stock \/ ~ sc.filter)

\* C13: for a candidate that is in stock (or with the exclusion policy
\* disabled) score_simple returns w_genre * |c.genres \cap G| +
\* w_author * |c.authors \cap A| + w_pop * P(c.id) and, as factors, the
\* unweighted overlap counts and the popularity; with weights 1.0/0.25/0.10
\* and zero popularity two shared genres and one shared author score 2.25 and
\* a single shared genre scores 1.0.
C13_ScoreIsWeightedSum ==
  IsScored =>
    LET s == sc.out.score
        p == CandidatePopularity
    IN  /\ s[1] * 100 * p[2] =
             s[2] * ((sc.w.genre * GenreOverlap + sc.w.author * AuthorOverlap) * p[2]
                     + sc.w.popularity * p[1])
        /\ sc.out.factors.genre = << GenreOverlap, 1 >>
        /\ sc.out.factors.author = << AuthorOverlap, 1 >>
        /\ sc.out.factors.popularity = p
        /\ (sc.w = DefaultWeights /\ p = Zero) =>
             /\ (GenreOverlap = 2 /\ AuthorOverlap = 1) => s = << 9, 4 >>
             /\ (GenreOverlap = 1 /\ AuthorOverlap = 0) => s = << 1, 1 >>

\* the call of the example: default weights, popularity 0, two shared genres
\* and one shared author, scored 2.25
C13_Witness ==
  /\ IsScored
  /\ sc.w = DefaultWeights
  /\ CandidatePopularity = Zero
  /\ GenreOverlap = 2
  /\ AuthorOverlap = 1
  /\ sc.out.score = << 9, 4 >>

\* --------------------------------------------- identical against disjoint
IdenticalToSeed ==
  sc.candidate.genres = SeedGenres /\ sc.candidate.authors = SeedAuthors

SharesNothing(c) ==
  c.genres \cap SeedGenres = {} /\ c.authors \cap SeedAuthors = {}

\* c differs from the call's candidate in nothing but its genres and authors
OtherwiseEqual(c) ==
  /\ c.in_stock = sc.candidate.in_stock
  /\ (IF c.id \in DOMAIN sc.popularity THEN sc.popularity[c.id] ELSE Zero)
       = CandidatePopularity

ScoreOf(c) ==
  score_simple(sc.seed_books, c, sc.popularity, sc.filter, sc.w).score

\* C14 as stated: for all seed sets and all configured weights, a candidate
\* whose genre set and author set are those of the seed scores strictly higher
\* than a candidate sharing no genre and no author with the seed that has the
\* same popularity and the same availability.
C14_IdenticalBeatsDisjoint ==
  (sc.done /\ IdenticalToSeed) =>
    \A c \in BookPool :
      (SharesNothing(c) /\ OtherwiseEqual(c)) => Less(ScoreOf(c), sc.out.score)

\* C14, amended: the identical candidate scores strictly higher when both
\* candidates are scored (in stock, or exclusion policy disabled) and
\* w_genre * |G| + w_author * |A| > 0; when both are excluded as out of stock,
\* or the genre and author weights are 0, the two scores are equal.
C14_IdenticalBeatsDisjointWhenWeighted ==
  (sc.done /\ IdenticalToSeed) =>
    \A c \in BookPool :
      (SharesNothing(c) /\ OtherwiseEqual(c)) =>
        IF IsScored /\ sc.w.genre * Cardinality(SeedGenres)
                       + sc.w.author * Cardinality(SeedAuthors) > 0
        THEN Less(ScoreOf(c), sc.out.score)
        ELSE ScoreOf(c) = sc.out.score

\* an in-stock candidate identical to the seed, a disjoint one of the same
\* popularity and availability in the pool, default weights
C14_Witness ==
  /\ IsScored
  /\ IdenticalToSeed
  /\ sc.w = DefaultWeights
  /\ sc.candidate.in_stock
  /\ \E c \in BookPool :
       /\ SharesNothing(c)
       /\ OtherwiseEqual(c)
       /\ Less(ScoreOf(c), sc.out.score)

\* ------------------------------------------------------ what is returned
\* the request was answered by scoring candidates against seed items
ScoredPaths == {"similar", "personalized", "feature-based"}
AnsweredByScoring == rs.status = "200" /\ rs.path \in ScoredPaths

\* the item the catalog holds for id (the last one, if the payload repeats
\* the id) is in stock
CatalogInStock(id) ==
  \E i \in DOMAIN rq.cat :
    /\ rq.cat[i].id = id
    /\ rq.cat[i].avail = "in"
    /\ \A j \in DOMAIN rq.cat : rq.cat[j].id = id => j <= i

\* C15: every item returned by get_similar and by get_personalized run on
\* seeds has score > 0, and with the out-of-stock exclusion policy enabled no
\* out-of-stock item is returned by these two operations.
C15_ReturnedScoresPositive ==
  AnsweredByScoring =>
    \A i \in DOMAIN rs.items :
      /\ Less(Zero, rs.items[i].score)
      /\ rq.filter => CatalogInStock(rs.items[i].id)

\* policy enabled, an out-of-stock candidate was collected, and the answer
\* holds other candidates but not that one
C15_Witness ==
  /\ AnsweredByScoring
  /\ rq.filter
  /\ rs.items # << >>
  /\ \E c \in rs.candidate_ids :
       /\ ~ CatalogInStock(c)
       /\ c \notin ReturnedIds

\* the limit of the request: 10 when a personalized request carries none
RequestLimit == IF rq.limit = NoLimit THEN DefaultLimit ELSE rq.limit

ReturnedItems == {rs.items[i] : i \in DOMAIN rs.items}

\* C16: the list returned by get_similar and by get_personalized is in
\* non-increasing score order and has at most limit entries; where candidates
\* were scored it holds the min(limit, n) highest-scoring of the n surviving
\* candidates: no omitted candidate has a strictly higher score than a
\* returned one.
C16_RankedAndTruncated ==
  /\ rs.status = "200" =>
       /\ \A i \in 1 .. Len(rs.items) - 1 :
            ~ Less(rs.items[i].score, rs.items[i + 1].score)
       /\ Len(rs.items) <= RequestLimit
  /\ AnsweredByScoring =>
       /\ Len(rs.items) = Min(RequestLimit, Cardinality(rs.scored))
       /\ ReturnedItems \subseteq rs.scored
       /\ Cardinality(ReturnedItems) = Len(rs.items)
       /\ \A r \in rs.scored \ ReturnedItems :
            \A i \in DOMAIN rs.items : ~ Less(rs.items[i].score, r.score)

\* three survivors with different scores, limit 2: the lowest one is omitted
C16_Witness ==
  /\ AnsweredByScoring
  /\ Cardinality(rs.scored) = 3
  /\ RequestLimit = 2
  /\ Len(rs.items) = 2
  /\ Less(rs.items[2].score, rs.items[1].score)
  /\ \E r \in rs.scored \ ReturnedItems : Less(r.score, rs.items[2].score)

\* ------------------------------------------------------ the candidate set
\* the item book_by_id holds for id: the last one the payload lists under it
StoredItem(id) ==
  LET last == CHOOSE i \in DOMAIN rq.cat :
                /\ rq.cat[i].id = id
                /\ \A j \in DOMAIN rq.cat : rq.cat[j].id = id => j <= i
  IN  rq.cat[last]

CatalogIds == {rq.cat[i].id : i \in DOMAIN rq.cat}

\* the seed items of a request in seed-item mode
SeedItems == {StoredItem(s) : s \in RequestSeeds \cap CatalogIds}

SharesWithSeed(item) ==
  \E s \in SeedItems :
    item.genres \cap s.genres # {} \/ item.authors \cap s.authors # {}

SeedItemMode == rs.status = "200" /\ rs.path \in {"similar", "personalized"}

\* the payload lists no id twice
UniqueIds == \A i, j \in DOMAIN rq.cat : rq.cat[i].id = rq.cat[j].id => i = j

\* C17: in seed-item mode the candidate set is exactly the union of
\* genre_to_book_ids[g] over every genre g of every seed and of
\* author_to_book_ids[a] over every author a of every seed, minus the seed
\* ids: an id is a candidate if and only if it is not a seed and an item the
\* catalog lists under it shares a genre or an author with some seed; where
\* the catalog lists every id once, that item is the one book_by_id holds.
C17_CandidatesAreSharers ==
  SeedItemMode =>
    LET idx == LoadIndices(rq.cat, rq.tx) IN
    /\ rs.candidate_ids =
         (UNION {idx.genre_to_book_ids[g] : g \in UNION {s.genres : s \in SeedItems}}
          \cup
          UNION {idx.author_to_book_ids[a] : a \in UNION {s.authors : s \in SeedItems}})
         \ RequestSeeds
    /\ \A c \in CatalogIds \cup RequestSeeds :
         c \in rs.candidate_ids <=>
           /\ c \notin RequestSeeds
           /\ \E i \in DOMAIN rq.cat : rq.cat[i].id = c /\ SharesWithSeed(rq.cat[i])
    /\ rs.candidate_ids \subseteq CatalogIds
    /\ UniqueIds =>
         \A c \in CatalogIds :
           c \in rs.candidate_ids <=>
             c \notin RequestSeeds /\ SharesWithSeed(idx.book_by_id[c])

\* one seed; one item is a candidate through a genre only, one through an
\* author only, and one item that shares nothing is left out
C17_Witness ==
  /\ SeedItemMode
  /\ Cardinality(SeedItems) = 1
  /\ \E c \in rs.candidate_ids, s \in SeedItems :
       StoredItem(c).genres \cap s.genres # {} /\ StoredItem(c).authors \cap s.authors = {}
  /\ \E c \in rs.candidate_ids, s \in SeedItems :
       StoredItem(c).genres \cap s.genres = {} /\ StoredItem(c).authors \cap s.authors # {}
  /\ \E c \in CatalogIds \ (rs.candidate_ids \cup RequestSeeds) :
       ~ SharesWithSeed(StoredItem(c))

\* the index entries of the genres and authors the request names
FeatureUnion ==
  LET idx == LoadIndices(rq.cat, rq.tx) IN
  UNION {Lookup(idx.genre_to_book_ids, g) : g \in rq.seed_genres}
  \cup
  UNION {Lookup(idx.author_to_book_ids, a) : a \in rq.seed_authors}

\* C18: when a personalized request resolves no seed item but names seed
\* genres and/or seed authors, the candidate set that is scored is exactly the
\* union of genre_to_book_ids[g] for the named genres and
\* author_to_book_ids[a] for the named authors, with no id subtracted.
C18_FeatureCandidatesAreTheUnion ==
  (rs.status = "200" /\ rs.path = "feature-based") =>
    rs.candidate_ids = FeatureUnion

\* ---------------------------------------------------- popularity from the feed
\* C19: after a rebuild the keys of the popularity map are exactly the ids
\* with at least one stock_out record; each key's raw count is the sum of
\* |quantity_change| over its stock_out records, a record without
\* quantity_change counting 1, and records of other types change nothing, so
\* that each value is that sum over the largest sum (over 1 if the largest sum
\* is 0).  Records of 3 and 2 for one id and of 5 for another give raw counts
\* 5 and 5 and popularity 1.0 for both.
C19_PopularityFromStockOut ==
  [][RebuildReturns =>
       LET txs == loc[Worker].tx
           pop == indices'.popularity
           top == IF TopIds(txs) = {} THEN 0
                  ELSE RawSum(txs, CHOOSE k \in TopIds(txs) : TRUE)
       IN  /\ DOMAIN pop = StockOutIds(txs)
           /\ \A k \in DOMAIN pop :
                pop[k][1] * (IF top = 0 THEN 1 ELSE top) = RawSum(txs, k) * pop[k][2]
           /\ txs = TxA =>
                /\ RawSum(txs, "b1") = 5
                /\ RawSum(txs, "b2") = 5
                /\ pop = [k \in {"b1", "b2"} |-> One]]_vars

\* a rebuild has returned the popularity of a feed that holds a stock_in
\* record and a stock_out record without quantity_change
C19_Witness ==
  /\ pc[Worker] = "w_log"
  /\ DOMAIN indices.popularity = {"b1", "b3"}
  /\ indices.popularity["b1"] = One
  /\ indices.popularity["b3"] = Frac(1, 2)

\* ------------------------------------------------ the builder filters nothing
\* C20: after a successful rebuild every item of the fetched catalog, in
\* stock or not, is a key of book_by_id, and its id is a member of
\* genre_to_book_ids[g] for every genre g it lists and of
\* author_to_book_ids[a] for every author a it lists.
C20_BuilderFiltersNothing ==
  [][RebuildReturns =>
       LET cat == loc[Worker].cat
           idx == indices'
       IN  \A i \in DOMAIN cat :
             /\ cat[i].id \in DOMAIN idx.book_by_id
             /\ \A g \in cat[i].genres :
                  /\ g \in DOMAIN idx.genre_to_book_ids
                  /\ cat[i].id \in idx.genre_to_book_ids[g]
             /\ \A a \in cat[i].authors :
                  /\ a \in DOMAIN idx.author_to_book_ids
                  /\ cat[i].id \in idx.author_to_book_ids[a]]_vars

\* a rebuild has returned a snapshot that holds an out-of-stock item under
\* both of its genres and under its author
C20_Witness ==
  /\ pc[Worker] = "w_log"
  /\ \E id \in DOMAIN indices.book_by_id :
       /\ ~ indices.book_by_id[id].in_stock
       /\ Cardinality(indices.book_by_id[id].genres) = 2
       /\ \A g \in indices.book_by_id[id].genres : id \in indices.genre_to_book_ids[g]
       /\ \A a \in indices.book_by_id[id].authors : id \in indices.author_to_book_ids[a]

\* ------------------------------------------------- errors of the handlers
\* every call of the request's rebuild returns and every item converts
IndexLoads == rq.fetch = "ok" /\ \A i \in DOMAIN rq.cat : rq.cat[i].ok

Answered == rs.status # "none"

\* C21: in get_similar, when the index loads and book_id is not a key of
\* book_by_id the request ends with the not-found error (404) and never with
\* the upstream error (502); the upstream error is produced only when
\* ensure_indices raises, and then the seed lookup is not reached: the answer
\* is 502 whether or not the book exists.
C21_NotFoundIsNotUpstream ==
  (rq.kind = "similar" /\ Answered) =>
    /\ (IndexLoads /\ rq.book_id \notin {rq.cat[i].id : i \in DOMAIN rq.cat})
         => rs.status = "404"
    /\ rs.status = "502" <=> ~ IndexLoads
    /\ rs.status = "404" => IndexLoads
    /\ rs.status = "502" => rs.seed_ids = {} /\ rs.items = << >>

\* an unknown book on a catalog that loaded
C21_Witness ==
  /\ rq.kind = "similar"
  /\ IndexLoads
  /\ rq.cat # << >>
  /\ rq.book_id \notin {rq.cat[i].id : i \in DOMAIN rq.cat}
  /\ rs.status = "404"

\* the seed ids of the request that the catalog holds
ResolvedSeeds == RequestSeeds \cap CatalogIds

FallbackPaths == {"feature-based", "trending"}

\* C22: a personalized request with degenerate input is never answered with
\* an error: whenever the resolved seed set is empty or the candidate set is
\* empty, get_personalized goes through the fallback chain (seed genres and
\* authors first, then the trending list by popularity) and answers with
\* success.
C22_DegenerateFallsBack ==
  (rq.kind = "personalized" /\ Answered /\ IndexLoads) =>
    /\ rs.status = "200"
    /\ ResolvedSeeds = {} => rs.path \in FallbackPaths
    /\ rs.candidate_ids = {} => rs.path = "trending"

\* C30: get_personalized never produces a not-found error: seed ids absent
\* from book_by_id are skipped, the resolved items form the seed set, and when
\* none resolves the request continues with the seed genres and authors and
\* then with the trending fallback.
C30_UnknownSeedsAreSkipped ==
  (rq.kind = "personalized" /\ Answered) =>
    /\ rs.status # "404"
    /\ IndexLoads =>
         /\ rs.status = "200"
         /\ ResolvedSeeds # {} =>
              rs.path = "personalized" /\ rs.seed_ids = ResolvedSeeds
         /\ (ResolvedSeeds = {} /\ FeatureUnion # {}) =>
              /\ rs.path = "feature-based"
              /\ rs.seed_ids \subseteq FeatureUnion
         /\ (ResolvedSeeds = {} /\ FeatureUnion = {}) => rs.path = "trending"

\* one seed id of the request is unknown, the other one is the only seed
C30_Witness ==
  /\ rq.kind = "personalized"
  /\ rs.status = "200"
  /\ rs.path = "personalized"
  /\ Cardinality(rq.seeds) = 2
  /\ Cardinality(rs.seed_ids) = 1
  /\ rs.items # << >>

\* the position ensure_indices / rebuild is entered from
EntersFrom(label) ==
  CASE label = "ensure"     -> {"idle"}
    [] label = "list_books" -> {"ensure"}
    [] label = "list_tx"    -> {"list_books"}
    [] label = "raised"     -> {"list_books", "list_tx"}
    [] OTHER                -> {}

\* C23: the Indexer never retries. A rebuild is entered from ensure_indices
\* only, it calls the catalog source once and the transaction source at most
\* once and only after the catalog call returned and converted; a failing
\* call ends the rebuild and the ensure_indices call, so the source calls
\* never outnumber the ensure_indices calls.
C23_StoreNeverRetries ==
  [][ /\ nCat' \in {nCat, nCat + 1}
      /\ nTx' \in {nTx, nTx + 1}
      /\ nCat' + nTx' <= nCat + nTx + 1
      /\ nCat' <= nCalls'
      /\ nTx' <= nCat'
      /\ \A t \in Threads :
           /\ (pc'[t] # pc[t] /\ EntersFrom(pc'[t]) # {}) =>
                pc[t] \in EntersFrom(pc'[t])
           /\ (pc[t] = "list_books" /\ pc'[t] # pc[t]) => nCat' = nCat + 1
           /\ (pc[t] = "list_tx" /\ pc'[t] # pc[t]) =>
                nTx' = nTx + 1 /\ ~ failed[t]
           /\ pc[t] = "raised" => pc'[t] \in {"raised", "idle"}
           /\ failed'[t] => pc'[t] = "raised"
    ]_vars

\* the only ensure_indices call so far failed in the catalog fetch: one
\* catalog call, no transaction call
C23_Witness ==
  /\ nCalls = 1
  /\ \E t \in Threads : pc[t] = "raised" /\ failed[t]
  /\ nCat = 1
  /\ nTx = 0

\* C24: the stale flag recommendations_health reports is true exactly when
\* the Indexer's own policy (_is_stale, with the Indexer's TTL and the clock
\* value the handler read) classifies the snapshot as stale.
C24_HealthStaleIsPolicy ==
  [][ \A t \in Threads :
        (hs[t] = "none" /\ hs'[t] # "none") =>
          (hs'[t] = "stale") = _is_stale
    ]_vars

\* --------------------------------------------------- the client's retry loop
Attempts == Len(http.log)
LastOutcome == http.log[Attempts]
Retryable == {"5xx", "network"}
HttpEnded == http.at = "done"

\* C25: _make_request makes at most max_retries + 1 attempts and always
\* ends. Every attempt but the last one failed with a 5xx or a network or
\* timeout error; a 2xx ends the call with the response, a 4xx ends it with
\* its error at once, and a 5xx or network error ends it only as attempt
\* number max_retries + 1, with that last error raised.
C25_RetryLoop ==
  /\ [](/\ Attempts <= http.max_retries + 1
        /\ \A i \in 1 .. Attempts - 1 : http.log[i] \in Retryable
        /\ http.at \in {"try", "backoff"} =>
             /\ http.result = "none"
             /\ \A i \in 1 .. Attempts : http.log[i] \in Retryable
        /\ (HttpEnded /\ Attempts > 0) =>
             /\ LastOutcome = "2xx" => http.result = "response"
             /\ LastOutcome = "4xx" => http.result = "HTTPStatusError"
             /\ LastOutcome \in Retryable =>
                  /\ Attempts = http.max_retries + 1
                  /\ http.result = ErrorOf(LastOutcome)
        /\ (HttpEnded /\ Attempts = 0) =>
             http.max_retries < 0 /\ http.result = "Exception")
  /\ <>HttpEnded

\* every attempt of a client with retries failed with a 5xx or a network
\* error, and the last error was raised
C25_Witness ==
  /\ HttpEnded
  /\ http.max_retries >= 2
  /\ Attempts = http.max_retries + 1
  /\ LastOutcome = "5xx"
  /\ http.log[1] = "network"
  /\ http.result = "HTTPStatusError"

\* --------------------------------------------------------- pagination metadata
\* C26: for a total >= 0, a per_page >= 1 and a page >= 1, pages is the
\* least number of pages of per_page items that hold total items and at
\* least 1, has_next is page < pages, has_prev is page > 1, and the offset is
\* (page - 1) * per_page.
C26_PaginationMeta ==
  pg.done =>
    LET m == pg.meta IN
      /\ m.pages >= 1
      /\ m.pages * pg.per_page >= pg.total
      /\ m.pages > 1 => (m.pages - 1) * pg.per_page < pg.total
      /\ pg.total = 0 => m.pages = 1
      /\ m.has_next = (pg.page < m.pages)
      /\ m.has_prev = (pg.page > 1)
      /\ m.total = pg.total /\ m.page = pg.page /\ m.per_page = pg.per_page
      /\ pg.offset + pg.per_page = pg.page * pg.per_page

\* an empty result on a page beyond the first: one page, nothing next
C26_Witness ==
  /\ pg.done
  /\ ~ (pg = NoPage)
  /\ pg.total = 0
  /\ pg.page > 1
  /\ pg.meta.pages = 1
  /\ ~ pg.meta.has_next
  /\ pg.meta.has_prev

\* ------------------------------------------------------ the trending fallback
\* the ids of the returned list, in order
ReturnedSequence == [k \in DOMAIN rs.items |-> rs.items[k].id]

\* the ranking get_trending builds for the request's inventory
InStockRanking == TrendingRanking(LoadIndices(rq.cat, rq.tx), KeyOrder(rq.cat))

\* C29: the trending fallback of get_personalized returns the first limit
\* entries of the in-stock-filtered popularity ranking of get_trending, that
\* is the min(limit, k) most popular of the k in-stock items.
C29_FallbackIsTrendingHead ==
  (rq.kind = "personalized" /\ rs.status = "200" /\ rs.path = "trending") =>
    /\ ReturnedSequence = Slice(InStockRanking, RequestLimit)
    /\ Len(rs.items) = Min(RequestLimit, Len(InStockRanking))

\* ------------------------------------------------- one rebuild per request
\* every item of the payload has the keys the conversion reads
IndexLoadsCatalog == \A i \in DOMAIN rq.cat : rq.cat[i].ok

RequestKinds == {"similar", "personalized", "trending"}

C28_IndexEntriesMatchStoredItems ==
  [][RebuildReturns =>
       LET idx == indices' IN
         /\ \A g \in DOMAIN idx.genre_to_book_ids :
              \A id \in idx.genre_to_book_ids[g] :
                /\ id \in DOMAIN idx.book_by_id
                /\ g \in idx.book_by_id[id].genres
         /\ \A a \in DOMAIN idx.author_to_book_ids :
              \A id \in idx.author_to_book_ids[a] :
                /\ id \in DOMAIN idx.book_by_id
                /\ a \in idx.book_by_id[id].authors]_vars

====
